---- MODULE Spec2Model ----
\* A model of package techo (src/techo.go, lines 28-317): a test HTTP(S) server
\* that binds a listener, serves on a background goroutine, writes the TLS
\* certificate and key to two temporary files, and removes them again.
\*
\* Strings are sequences of one-character strings, byte slices are records
\* [isNil, data], the file system is a function from file names to contents.
\* The third-party server (graceful.Server) is modelled by what techo.go relies
\* on: ListenTLS/net.Listen bind a port or fail, Stop(timeout) only signals the
\* serve goroutine, and Serve(l) returns (closing l) after that signal or on its
\* own with an error.
\* Lines 357-471 of the file hold an older variant of the package, without TLS
\* and without temp files; its listenAndStart, Stop and URL are the plaintext
\* part of what is modelled here.
EXTENDS Integers, Sequences, FiniteSets, TLC

\* ---------------------------------------------------------------- bounds
MaxHandles == 2   \* how many servers are started in one behaviour
MaxDeep == 1      \* servers per behaviour where one server is followed in depth
NumPorts == 2     \* TCP ports of the host
MaxStops == 2     \* Stop calls per handle
MaxPathLen == 2   \* longest path handed to AbsURL

Handles == 1..MaxHandles
Ports == 1..NumPorts

VARIABLES
    defaultCert,  \* package variable defaultCert
    defaultKey,   \* package variable defaultKey
    lastSet,      \* history: the arguments of the latest SetDefaultTLSCert call
    disk,         \* the temp directory: file name -> contents
    nextTmp,      \* the random suffix ioutil.TempFile draws next
    portOwner,    \* port -> handle whose listener holds it (0: free)
    nHandles,     \* Techo objects allocated so far (t := new(Techo))
    te,           \* handle -> the fields of that Techo
    srv,          \* handle -> state of t.srv (the graceful server)
    pc,           \* handle -> position of the Stop caller and of the serve goroutine
    stops,        \* handle -> Stop calls that have returned
    removes,      \* history: handle -> os.Remove calls made on its files
    created,      \* history: handle -> names of the temp files its start created
    ret,          \* history: what the start that has just returned handed back
                  \* (forgotten at the next step of any other operation)
    absRes,       \* history: the latest AbsURL call and its result
    race          \* where a SetDefaultTLSCert call and a NewTLS call taken one
                  \* access to the package variables at a time stand

vars == <<defaultCert, defaultKey, lastSet, disk, nextTmp, portOwner, nHandles,
          te, srv, pc, stops, removes, created, ret, absRes, race>>

\* ---------------------------------------------------------------- byte slices
Bytes(d) == [isNil |-> FALSE, data |-> d]
NilBytes == [isNil |-> TRUE, data |-> <<>>]      \* a nil []byte
EmptyBytes == Bytes(<<>>)                        \* a non-nil []byte of length 0
len(b) == Len(b.data)

localhostCert == Bytes(<<"localhostCert">>)
localhostKey == Bytes(<<"localhostKey">>)
testCert == Bytes(<<"testCert">>)
testKey == Bytes(<<"testKey">>)

\* The values callers pass as certificate and as key.
CertInputs == {NilBytes, EmptyBytes, testCert}
KeyInputs == {NilBytes, EmptyBytes, testKey}

\* ---------------------------------------------------------------- strings
NoPath == <<>>                                   \* the empty string ""
HTTP == <<"h", "t", "t", "p", ":", "/", "/">>
HTTPS == <<"h", "t", "t", "p", "s", ":", "/", "/">>
LoopbackIP == <<"1", "2", "7", ".", "0", ".", "0", ".", "1">>
Digit(n) == <<"0", "1", "2", "3", "4", "5", "6", "7", "8", "9">>[n + 1]

RECURSIVE Itoa(_)
Itoa(n) == IF n < 10 THEN <<Digit(n)>> ELSE Itoa(n \div 10) \o <<Digit(n % 10)>>

\* fmt.Sprintf("<scheme>%v:%v", t.Addr.IP, t.Port)
FormatURL(scheme, port) == scheme \o LoopbackIP \o <<":">> \o Itoa(port)

\* Addresses: "" is <<>>, "localhost:" asks for an ephemeral port,
\* "localhost:P" for port P.
AnyPort == <<"localhost:">>
AtPort(p) == <<"localhost:", p>>
PortOf(addr) == IF Len(addr) = 2 THEN addr[2] ELSE 0
Addrs == {<<>>, AnyPort} \cup {AtPort(p) : p \in Ports}

PathChars == {"/", "a"}
Paths == UNION {[1..n -> PathChars] : n \in 0..MaxPathLen}

\* ---------------------------------------------------------------- configuration
Configs == [Addr : Addrs, TLS : {FALSE}, TLSCert : {NilBytes}, TLSKey : {NilBytes}]
             \cup [Addr : Addrs, TLS : {TRUE}, TLSCert : CertInputs, TLSKey : KeyInputs]
NoConfig == [Addr |-> <<>>, TLS |-> FALSE, TLSCert |-> NilBytes, TLSKey |-> NilBytes]

\* What the environment does to one start: how far writeTLSFiles gets, whether
\* the listen call fails for a reason other than the port being taken, and the
\* port the OS hands out for an ephemeral request (0: none left).
WriteOutcomes == {"ok", "createCert", "writeCert", "createKey", "writeKey"}
FreePorts == {p \in Ports : portOwner[p] = 0}
Envs == [write : WriteOutcomes, listenOK : BOOLEAN,
         port : IF FreePorts = {} THEN {0} ELSE FreePorts]

\* ---------------------------------------------------------------- the handle
\* new(Techo) with t.mutex = &sync.Mutex{}
NewTecho == [status |-> "none", tls |-> FALSE, Port |-> 0, URL |-> <<>>,
             certFilePath |-> NoPath, keyFilePath |-> NoPath, mutex |-> "free"]
NoSrv == [interrupt |-> FALSE, exit |-> "none"]
NoPC == [stop |-> "idle", serve |-> "none"]
NoRemoves == [cert |-> 0, key |-> 0, failed |-> {}]
NoCreated == [cert |-> NoPath, key |-> NoPath]
NoRet == [fn |-> "none", cfg |-> NoConfig, h |-> 0, handle |-> 0, err |-> "nil",
          cause |-> "nil", logged |-> FALSE, bind |-> "none"]
NoAbs == [h |-> 0, path |-> <<>>, out |-> <<>>]

\* No SetDefaultTLSCert call and no NewTLS call is under way.
NoRace == [set |-> "idle", start |-> "idle", cert |-> NilBytes, key |-> NilBytes]

Init ==
    /\ defaultCert = localhostCert
    /\ defaultKey = localhostKey
    /\ lastSet = [called |-> FALSE, cert |-> NilBytes, key |-> NilBytes]
    /\ disk = <<>>
    /\ nextTmp = 1
    /\ portOwner = [p \in Ports |-> 0]
    /\ nHandles = 0
    /\ te = [h \in Handles |-> NewTecho]
    /\ srv = [h \in Handles |-> NoSrv]
    /\ pc = [h \in Handles |-> NoPC]
    /\ stops = [h \in Handles |-> 0]
    /\ removes = [h \in Handles |-> NoRemoves]
    /\ created = [h \in Handles |-> NoCreated]
    /\ ret = NoRet
    /\ absRes = NoAbs
    /\ race = NoRace

\* ---------------------------------------------------------------- files
Exists(name) == name \in DOMAIN disk
\* ioutil.TempFile("", prefix): a fresh, empty file with a unique name
TempName(prefix, n) == <<prefix, n>>
CreateFile(d, name) == (name :> <<>>) @@ d
\* ioutil.WriteFile(name, data, perm) on an existing file
WriteFile(d, name, data) == [d EXCEPT ![name] = data]
\* os.Remove(name) that succeeds
RemoveFile(d, name) == [n \in DOMAIN d \ {name} |-> d[n]]

\* writeTLSFiles (under t.mutex, which nothing else can hold yet): `w` says
\* which of the four file operations fails, if any. The paths are assigned
\* only when all four succeeded; files made before a failure stay on disk.
writeTLSFiles(t, cert, key, w) ==
    LET certName == TempName("techo-tls-cert_", nextTmp)
        keyName == TempName("techo-tls-key_", nextTmp + 1)
        d1 == CreateFile(disk, certName)
        d2 == WriteFile(d1, certName, cert.data)
        d3 == CreateFile(d2, keyName)
        d4 == WriteFile(d3, keyName, key.data)
        none == [t |-> t, created |-> NoCreated, disk |-> disk, nextTmp |-> nextTmp,
                 err |-> "nil"]
    IN  CASE w = "createCert" -> [none EXCEPT !.err = "TempFileError"]
          [] w = "writeCert" ->
                [none EXCEPT !.err = "WriteFileError", !.disk = d1,
                             !.nextTmp = nextTmp + 1, !.created.cert = certName]
          [] w = "createKey" ->
                [none EXCEPT !.err = "TempFileError", !.disk = d2,
                             !.nextTmp = nextTmp + 1, !.created.cert = certName]
          [] w = "writeKey" ->
                [none EXCEPT !.err = "WriteFileError", !.disk = d3,
                             !.nextTmp = nextTmp + 2, !.created.cert = certName,
                             !.created.key = keyName]
          [] OTHER ->
                [t |-> [t EXCEPT !.certFilePath = certName, !.keyFilePath = keyName],
                 created |-> [cert |-> certName, key |-> keyName],
                 disk |-> d4, nextTmp |-> nextTmp + 2, err |-> "nil"]

\* ---------------------------------------------------------------- listening
\* net.Listen("tcp", addr) and srv.ListenTLS: the port bound, or the error.
Listen(addr, env) ==
    LET req == PortOf(addr)
    IN  IF ~env.listenOK THEN [err |-> "ListenError", port |-> 0]
        ELSE IF req = 0
             THEN IF env.port = 0 THEN [err |-> "AddrInUse", port |-> 0]
                  ELSE [err |-> "nil", port |-> env.port]
        ELSE IF portOwner[req] # 0 THEN [err |-> "AddrInUse", port |-> 0]
        ELSE [err |-> "nil", port |-> req]

\* What a start leaves behind: the Techo it built, whether that pointer is
\* returned (nil otherwise), the error, whether a bind was attempted and how it
\* ended, the port bound, whether the serve goroutine was started, and the
\* files written.
StartResult(t, nonNil, err, bind, port, go, w) ==
    [t |-> t, nonNil |-> nonNil, err |-> err, bind |-> bind, port |-> port, go |-> go,
     disk |-> w.disk, nextTmp |-> w.nextTmp, created |-> w.created]
NoWrite == [disk |-> disk, nextTmp |-> nextTmp, created |-> NoCreated]

\* listenAndStart with `return t, err` where the code has `return nil, err`.
listenAndStartReturnsHandle(addr, env) ==
    LET t == NewTecho
        l == Listen(addr, env)
    IN  IF l.err # "nil"
        THEN StartResult([t EXCEPT !.status = "failed"], TRUE, l.err, "fail", 0, FALSE,
                         NoWrite)
        ELSE StartResult([t EXCEPT !.status = "listening", !.Port = l.port,
                                   !.URL = FormatURL(HTTP, l.port)],
                         TRUE, "nil", "ok", l.port, TRUE, NoWrite)

listenAndStart(addr, env) ==
    LET t == NewTecho
        l == Listen(addr, env)
    IN  IF l.err # "nil"
        THEN StartResult([t EXCEPT !.status = "failed"], FALSE, l.err, "fail", 0, FALSE,
                         NoWrite)
        ELSE StartResult([t EXCEPT !.status = "listening", !.Port = l.port,
                                   !.URL = FormatURL(HTTP, l.port)],
                         TRUE, "nil", "ok", l.port, TRUE, NoWrite)

\* listenAndStartTLS without the check of the error of writeTLSFiles.
listenAndStartTLSIgnoresWriteError(addr, tlsCert, tlsKey, env) ==
    LET t == [NewTecho EXCEPT !.tls = TRUE]
        w == writeTLSFiles(t, tlsCert, tlsKey, env.write)
        l == Listen(addr, env)
    IN  IF l.err # "nil"
        THEN StartResult([w.t EXCEPT !.status = "failed"], FALSE, l.err, "fail", 0,
                         FALSE, w)
        ELSE StartResult([w.t EXCEPT !.status = "listening", !.Port = l.port,
                                     !.URL = FormatURL(HTTPS, l.port)],
                         TRUE, "nil", "ok", l.port, TRUE, w)

\* listenAndStartTLS with a `defer t.cleanupTLSFiles()`: the files are removed
\* when the start returns.
listenAndStartTLSCleansUp(addr, tlsCert, tlsKey, env) ==
    LET t == [NewTecho EXCEPT !.tls = TRUE]
        w == writeTLSFiles(t, tlsCert, tlsKey, env.write)
        l == Listen(addr, env)
        gone == [w EXCEPT !.disk = [n \in DOMAIN w.disk \ {w.created.cert, w.created.key}
                                      |-> w.disk[n]]]
        cleared == [w.t EXCEPT !.certFilePath = NoPath, !.keyFilePath = NoPath]
    IN  IF w.err # "nil"
        THEN StartResult([w.t EXCEPT !.status = "failed"], FALSE, w.err, "none", 0,
                         FALSE, w)
        ELSE IF l.err # "nil"
        THEN StartResult([cleared EXCEPT !.status = "failed"], FALSE, l.err, "fail", 0,
                         FALSE, gone)
        ELSE StartResult([cleared EXCEPT !.status = "listening", !.Port = l.port,
                                         !.URL = FormatURL(HTTPS, l.port)],
                         TRUE, "nil", "ok", l.port, TRUE, gone)

listenAndStartTLS(addr, tlsCert, tlsKey, env) ==
    LET t == [NewTecho EXCEPT !.tls = TRUE]
        w == writeTLSFiles(t, tlsCert, tlsKey, env.write)
        l == Listen(addr, env)
    IN  IF w.err # "nil"
        THEN StartResult([w.t EXCEPT !.status = "failed"], FALSE, w.err, "none", 0,
                         FALSE, w)
        ELSE IF l.err # "nil"
        THEN StartResult([w.t EXCEPT !.status = "failed"], FALSE, l.err, "fail", 0,
                         FALSE, w)
        ELSE StartResult([w.t EXCEPT !.status = "listening", !.Port = l.port,
                                     !.URL = FormatURL(HTTPS, l.port)],
                         TRUE, "nil", "ok", l.port, TRUE, w)

\* NewWith(cfg): the cert and key handed on, then the start.
NewWithCert(cfg) ==
    LET cert0 == defaultCert
        cert1 == IF len(cfg.TLSCert) > 0 THEN cfg.TLSCert ELSE cert0
    IN  IF len(cfg.TLSKey) > 0 THEN cfg.TLSKey ELSE cert1
NewWithKey(cfg) == defaultKey

\* NewWith that always listens at "localhost:", whatever cfg.Addr says.
NewWithStartIgnoresAddr(cfg, env) ==
    IF cfg.TLS = FALSE
    THEN listenAndStart(AnyPort, env)
    ELSE listenAndStartTLS(AnyPort, NewWithCert(cfg), NewWithKey(cfg), env)

NewWithStart(cfg, env) ==
    LET addr == IF cfg.Addr = <<>> THEN AnyPort ELSE cfg.Addr
    IN  IF cfg.TLS = FALSE
        THEN listenAndStart(addr, env)
        ELSE listenAndStartTLS(addr, NewWithCert(cfg), NewWithKey(cfg), env)

\* What the three entry points hand back to the caller from a start result r:
\* the handle (0 for nil), the error returned, and whether the error was logged.
NewReturn(r, h) ==
    [handle |-> IF r.nonNil THEN h ELSE 0, err |-> "nil", logged |-> r.err # "nil"]
NewWithReturn(r, h) ==
    [handle |-> IF r.nonNil THEN h ELSE 0, err |-> r.err, logged |-> FALSE]
NewTLSReturn(r, h) ==
    [handle |-> IF r.err # "nil" THEN 0 ELSE IF r.nonNil THEN h ELSE 0, err |-> "nil",
     logged |-> r.err # "nil"]

\* The state after a start: the new Techo, its listener and its goroutine.
Started(fn, cfg, r, back) ==
    LET h == nHandles + 1
    IN  /\ nHandles' = h
        /\ te' = [te EXCEPT ![h] = r.t]
        /\ portOwner' = IF r.port # 0 THEN [portOwner EXCEPT ![r.port] = h] ELSE portOwner
        /\ pc' = [pc EXCEPT ![h].serve = IF r.go THEN "serving" ELSE "none"]
        /\ disk' = r.disk
        /\ nextTmp' = r.nextTmp
        /\ created' = [created EXCEPT ![h] = r.created]
        /\ ret' = [fn |-> fn, cfg |-> cfg, h |-> h, handle |-> back.handle,
                   err |-> back.err, cause |-> r.err, logged |-> back.logged,
                   bind |-> r.bind]
        /\ absRes' = NoAbs
        /\ UNCHANGED <<defaultCert, defaultKey, lastSet, srv, stops, removes>>

\* The three entry points. `limit` bounds the servers started in one behaviour,
\* `envs` is what the environment may do to the call.
NewIn(limit, envs) ==
    /\ nHandles < limit
    /\ \E env \in envs :
          LET r == listenAndStart(AnyPort, env)
          IN  Started("New", NoConfig, r, NewReturn(r, nHandles + 1))
    /\ UNCHANGED race

NewWithIn(limit, cfgs, envs) ==
    /\ nHandles < limit
    /\ \E cfg \in cfgs, env \in envs :
          LET r == NewWithStart(cfg, env)
          IN  Started("NewWith", cfg, r, NewWithReturn(r, nHandles + 1))
    /\ UNCHANGED race

NewTLSIn(limit, envs) ==
    /\ nHandles < limit
    /\ \E env \in envs :
          LET r == listenAndStartTLS(AnyPort, defaultCert, defaultKey, env)
          IN  Started("NewTLS", NoConfig, r, NewTLSReturn(r, nHandles + 1))
    /\ UNCHANGED race

\* Configurations without a certificate or key of their own.
DefaultConfigs == {c \in Configs : c.TLSCert.isNil /\ c.TLSKey.isNil}
\* An environment in which no file operation and no listen call fails by itself.
EnvsOK == {e \in Envs : e.write = "ok" /\ e.listenOK}

New == NewIn(MaxHandles, Envs)
NewWith == NewWithIn(MaxHandles, Configs, Envs)
NewTLS == NewTLSIn(MaxHandles, Envs)

\* ---------------------------------------------------------------- the default cert
\* SetDefaultTLSCert without the nil check on cert.
setDefaultCertNoNilCheck(cert) == cert
setDefaultCert(cert) == IF cert.isNil THEN localhostCert ELSE cert
setDefaultKey(key) == IF key.isNil THEN localhostKey ELSE key

SetDefaultTLSCert ==
    \E cert \in CertInputs, key \in KeyInputs :
        /\ defaultCert' = setDefaultCert(cert)
        /\ defaultKey' = setDefaultKey(key)
        /\ lastSet' = [called |-> TRUE, cert |-> cert, key |-> key]
        /\ ret' = NoRet
        /\ UNCHANGED <<disk, nextTmp, portOwner, nHandles, te, srv, pc, stops, removes,
                       created, absRes, race>>

\* ---------------------------------------------------------------- the default cert, access by access
\* SetDefaultTLSCert above is the call as a caller sees it when nothing else
\* runs. defaultCert and defaultKey are plain package variables, written one
\* after the other and read one after the other with no lock: below every
\* access is a step of its own, for one SetDefaultTLSCert call and one NewTLS
\* call that run in different goroutines.

\* The pairs handed to SetDefaultTLSCert here belong together (nil, nil
\* restores the built-in pair), so that a certificate with the key of
\* another pair can only come from the interleaving.
MatchedPairs == {<<NilBytes, NilBytes>>, <<testCert, testKey>>}

\* A byte slice is three words (pointer, length, capacity), and the assignment
\* of one is not atomic: until it is complete the variable holds words of the
\* old value and of the new one.
MixedBytes == Bytes(<<"mixed">>)
partlyWritten(cur, new) == IF new = cur THEN cur ELSE MixedBytes

\* NewTLS whose reads of the defaults wait until no SetDefaultTLSCert runs.
startReadsExcluded(r) == r.set = "idle"
\* NewTLS reads defaultCert and defaultKey wherever a SetDefaultTLSCert call
\* stands: nothing orders the two.
startReads(r) == TRUE

\* SetDefaultTLSCert(cert, key) is called.
RaceSetCall ==
    /\ race.set = "idle"
    /\ \E pair \in MatchedPairs :
          lastSet' = [called |-> TRUE, cert |-> pair[1], key |-> pair[2]]
    /\ race' = [race EXCEPT !.set = "cert"]
    /\ ret' = NoRet
    /\ UNCHANGED <<defaultCert, defaultKey, disk, nextTmp, portOwner, nHandles, te, srv,
                   pc, stops, removes, created, absRes>>

\* if cert == nil { defaultCert = localhostCert } else { defaultCert = cert }:
\* the assignment begins ...
RaceSetCertBegin ==
    /\ race.set = "cert"
    /\ defaultCert' = partlyWritten(defaultCert, setDefaultCert(lastSet.cert))
    /\ race' = [race EXCEPT !.set = "certEnd"]
    /\ ret' = NoRet
    /\ UNCHANGED <<defaultKey, lastSet, disk, nextTmp, portOwner, nHandles, te, srv,
                   pc, stops, removes, created, absRes>>

\* ... and is complete.
RaceSetCert ==
    /\ race.set = "certEnd"
    /\ defaultCert' = setDefaultCert(lastSet.cert)
    /\ race' = [race EXCEPT !.set = "key"]
    /\ ret' = NoRet
    /\ UNCHANGED <<defaultKey, lastSet, disk, nextTmp, portOwner, nHandles, te, srv,
                   pc, stops, removes, created, absRes>>

\* if key == nil { defaultKey = localhostKey } else { defaultKey = key }: the
\* assignment begins ...
RaceSetKeyBegin ==
    /\ race.set = "key"
    /\ defaultKey' = partlyWritten(defaultKey, setDefaultKey(lastSet.key))
    /\ race' = [race EXCEPT !.set = "keyEnd"]
    /\ ret' = NoRet
    /\ UNCHANGED <<defaultCert, lastSet, disk, nextTmp, portOwner, nHandles, te, srv,
                   pc, stops, removes, created, absRes>>

\* ... is complete, and SetDefaultTLSCert returns.
RaceSetKey ==
    /\ race.set = "keyEnd"
    /\ defaultKey' = setDefaultKey(lastSet.key)
    /\ race' = [race EXCEPT !.set = "idle"]
    /\ ret' = NoRet
    /\ UNCHANGED <<defaultCert, lastSet, disk, nextTmp, portOwner, nHandles, te, srv,
                   pc, stops, removes, created, absRes>>

\* NewTLS evaluates the argument defaultCert of listenAndStartTLS ...
RaceReadCert(limit) ==
    /\ race.start = "idle"
    /\ nHandles < limit
    /\ startReads(race)
    /\ race' = [race EXCEPT !.start = "key", !.cert = defaultCert]
    /\ ret' = NoRet
    /\ UNCHANGED <<defaultCert, defaultKey, lastSet, disk, nextTmp, portOwner, nHandles,
                   te, srv, pc, stops, removes, created, absRes>>

\* ... then the argument defaultKey ...
RaceReadKey ==
    /\ race.start = "key"
    /\ startReads(race)
    /\ race' = [race EXCEPT !.start = "call", !.key = defaultKey]
    /\ ret' = NoRet
    /\ UNCHANGED <<defaultCert, defaultKey, lastSet, disk, nextTmp, portOwner, nHandles,
                   te, srv, pc, stops, removes, created, absRes>>

\* ... and calls listenAndStartTLS("localhost:", cert, key) with what it read.
RaceStart(envs) ==
    /\ race.start = "call"
    /\ \E env \in envs :
          LET r == listenAndStartTLS(AnyPort, race.cert, race.key, env)
          IN  Started("NewTLS", NoConfig, r, NewTLSReturn(r, nHandles + 1))
    /\ race' = [race EXCEPT !.start = "idle", !.cert = NilBytes, !.key = NilBytes]

\* ---------------------------------------------------------------- Stop and cleanup
\* t.srv.Stop(timeout): hands the interrupt to the serve goroutine, waits for nothing.
srvStop(s) == [s EXCEPT !.interrupt = TRUE]

\* Stop, first half: t.srv.Stop(time.Millisecond * 1); cleanupTLSFiles comes next.
\* `limit` bounds the Stop calls made on one handle.
Stop(h, limit) ==
    /\ te[h].status = "listening"
    /\ pc[h].stop = "idle"
    /\ stops[h] < limit
    /\ srv' = [srv EXCEPT ![h] = srvStop(srv[h])]
    /\ pc' = [pc EXCEPT ![h].stop = "lock"]
    /\ ret' = NoRet
    /\ UNCHANGED <<defaultCert, defaultKey, lastSet, disk, nextTmp, portOwner, nHandles,
                   te, stops, removes, created, absRes, race>>

\* cleanupTLSFiles whose t.mutex.Lock() never waits.
mutexIgnored(t) == TRUE
\* t.mutex.Lock() returns once no context holds the mutex.
mutexUnlocked(t) == t.mutex = "free"

\* cleanupTLSFiles, run by ctx ("stop": the caller of Stop, "serve": the serve
\* goroutine): t.mutex.Lock()
CleanupLock(h, ctx) ==
    /\ pc[h][ctx] = "lock"
    /\ mutexUnlocked(te[h])
    /\ te' = [te EXCEPT ![h].mutex = ctx]
    /\ pc' = [pc EXCEPT ![h][ctx] = "cert"]
    /\ ret' = NoRet
    /\ UNCHANGED <<defaultCert, defaultKey, lastSet, disk, nextTmp, portOwner, nHandles,
                   srv, stops, removes, created, absRes, race>>

\* cleanupTLSFiles that clears certFilePath without calling os.Remove.
cleanupCertNoRemove(t) == [rm |-> NoPath, t |-> [t EXCEPT !.certFilePath = NoPath]]
\* cleanupTLSFiles that removes the certificate file and keeps certFilePath.
cleanupCertKeepsPath(t) == [rm |-> t.certFilePath, t |-> t]
\* cleanupTLSFiles that removes the key file and keeps keyFilePath.
cleanupKeyKeepsPath(t) == [rm |-> t.keyFilePath, t |-> t]

\* if t.certFilePath != "" { os.Remove(t.certFilePath); t.certFilePath = "" }:
\* the file to remove (NoPath: none) and the handle afterwards.
cleanupCert(t) ==
    IF t.certFilePath # NoPath
    THEN [rm |-> t.certFilePath, t |-> [t EXCEPT !.certFilePath = NoPath]]
    ELSE [rm |-> NoPath, t |-> t]
\* if t.keyFilePath != "" { os.Remove(t.keyFilePath); t.keyFilePath = "" }
cleanupKey(t) ==
    IF t.keyFilePath # NoPath
    THEN [rm |-> t.keyFilePath, t |-> [t EXCEPT !.keyFilePath = NoPath]]
    ELSE [rm |-> NoPath, t |-> t]

\* os.Remove(name): removes the file, or fails (logged) and leaves the disk as
\* it is; it always fails on a file that is not there. `oks` below is the set
\* of outcomes the environment allows (TRUE: the removal succeeds).
Remove(h, which, name, ok) ==
    /\ disk' = IF ok /\ Exists(name) THEN RemoveFile(disk, name) ELSE disk
    /\ removes' = [removes EXCEPT
                     ![h][which] = @ + 1,
                     ![h].failed = IF ok /\ Exists(name) THEN @ ELSE @ \cup {which}]

CleanupCert(h, ctx, oks) ==
    /\ pc[h][ctx] = "cert"
    /\ LET c == cleanupCert(te[h])
       IN  /\ te' = [te EXCEPT ![h] = c.t]
           /\ IF c.rm # NoPath
              THEN \E ok \in oks : Remove(h, "cert", c.rm, ok)
              ELSE UNCHANGED <<disk, removes>>
    /\ pc' = [pc EXCEPT ![h][ctx] = "key"]
    /\ ret' = NoRet
    /\ UNCHANGED <<defaultCert, defaultKey, lastSet, nextTmp, portOwner, nHandles,
                   srv, stops, created, absRes, race>>

\* The key file, then the deferred t.mutex.Unlock() and the return: to the
\* caller of Stop, or to the end of the goroutine.
CleanupKey(h, ctx, oks) ==
    /\ pc[h][ctx] = "key"
    /\ LET c == cleanupKey(te[h])
       IN  /\ te' = [te EXCEPT ![h] = [c.t EXCEPT !.mutex = "free"]]
           /\ IF c.rm # NoPath
              THEN \E ok \in oks : Remove(h, "key", c.rm, ok)
              ELSE UNCHANGED <<disk, removes>>
    /\ pc' = [pc EXCEPT ![h][ctx] = IF ctx = "stop" THEN "idle" ELSE "done"]
    /\ stops' = IF ctx = "stop" THEN [stops EXCEPT ![h] = @ + 1] ELSE stops
    /\ ret' = NoRet
    /\ UNCHANGED <<defaultCert, defaultKey, lastSet, nextTmp, portOwner, nHandles,
                   srv, created, absRes, race>>

\* ---------------------------------------------------------------- cleanupTLSFiles, statement by statement
\* CleanupCert and CleanupKey above take the test of a path, os.Remove and the
\* clearing of the path as one step each, which is what the other context can
\* observe as long as the mutex is held. The steps below take each access to
\* the handle's fields on its own, so that the mutex is what keeps the two
\* contexts apart.
\* if t.certFilePath != ""
CleanupCertTest(h, ctx) ==
    /\ pc[h][ctx] = "cert"
    /\ pc' = [pc EXCEPT ![h][ctx] = IF te[h].certFilePath # NoPath THEN "rmCert" ELSE "key"]
    /\ ret' = NoRet
    /\ UNCHANGED <<defaultCert, defaultKey, lastSet, disk, nextTmp, portOwner, nHandles,
                   te, srv, stops, removes, created, absRes, race>>

\* err := os.Remove(t.certFilePath), logged on failure
CleanupCertRemove(h, ctx, oks) ==
    /\ pc[h][ctx] = "rmCert"
    /\ \E ok \in oks : Remove(h, "cert", te[h].certFilePath, ok)
    /\ pc' = [pc EXCEPT ![h][ctx] = "clrCert"]
    /\ ret' = NoRet
    /\ UNCHANGED <<defaultCert, defaultKey, lastSet, nextTmp, portOwner, nHandles,
                   te, srv, stops, created, absRes, race>>

\* t.certFilePath = ""
CleanupCertClear(h, ctx) ==
    /\ pc[h][ctx] = "clrCert"
    /\ te' = [te EXCEPT ![h].certFilePath = NoPath]
    /\ pc' = [pc EXCEPT ![h][ctx] = "key"]
    /\ ret' = NoRet
    /\ UNCHANGED <<defaultCert, defaultKey, lastSet, disk, nextTmp, portOwner, nHandles,
                   srv, stops, removes, created, absRes, race>>

\* if t.keyFilePath != ""
CleanupKeyTest(h, ctx) ==
    /\ pc[h][ctx] = "key"
    /\ pc' = [pc EXCEPT ![h][ctx] = IF te[h].keyFilePath # NoPath THEN "rmKey" ELSE "unlock"]
    /\ ret' = NoRet
    /\ UNCHANGED <<defaultCert, defaultKey, lastSet, disk, nextTmp, portOwner, nHandles,
                   te, srv, stops, removes, created, absRes, race>>

\* err := os.Remove(t.keyFilePath), logged on failure
CleanupKeyRemove(h, ctx, oks) ==
    /\ pc[h][ctx] = "rmKey"
    /\ \E ok \in oks : Remove(h, "key", te[h].keyFilePath, ok)
    /\ pc' = [pc EXCEPT ![h][ctx] = "clrKey"]
    /\ ret' = NoRet
    /\ UNCHANGED <<defaultCert, defaultKey, lastSet, nextTmp, portOwner, nHandles,
                   te, srv, stops, created, absRes, race>>

\* t.keyFilePath = ""
CleanupKeyClear(h, ctx) ==
    /\ pc[h][ctx] = "clrKey"
    /\ te' = [te EXCEPT ![h].keyFilePath = NoPath]
    /\ pc' = [pc EXCEPT ![h][ctx] = "unlock"]
    /\ ret' = NoRet
    /\ UNCHANGED <<defaultCert, defaultKey, lastSet, disk, nextTmp, portOwner, nHandles,
                   srv, stops, removes, created, absRes, race>>

\* The deferred t.mutex.Unlock() and the return: to the caller of Stop, or to
\* the end of the goroutine.
CleanupUnlock(h, ctx) ==
    /\ pc[h][ctx] = "unlock"
    /\ te' = [te EXCEPT ![h].mutex = "free"]
    /\ pc' = [pc EXCEPT ![h][ctx] = IF ctx = "stop" THEN "idle" ELSE "done"]
    /\ stops' = IF ctx = "stop" THEN [stops EXCEPT ![h] = @ + 1] ELSE stops
    /\ ret' = NoRet
    /\ UNCHANGED <<defaultCert, defaultKey, lastSet, disk, nextTmp, portOwner, nHandles,
                   srv, removes, created, absRes, race>>

\* ---------------------------------------------------------------- the serve goroutine
\* What the goroutine does once t.srv.Serve(l) has returned: the TLS one calls
\* cleanupTLSFiles, the plaintext one ends.
afterServe(t) == IF t.tls THEN "lock" ELSE "done"

\* t.srv.Serve(l) returns, its listener closed: `how` is "nil" after the
\* interrupt of Stop, "err" when the serve loop fails on its own (logged).
ServeReturns(h, how) ==
    /\ pc[h].serve = "serving"
    /\ srv' = [srv EXCEPT ![h].exit = how]
    /\ portOwner' = [p \in Ports |-> IF portOwner[p] = h THEN 0 ELSE portOwner[p]]
    /\ pc' = [pc EXCEPT ![h].serve = afterServe(te[h])]
    /\ ret' = NoRet
    /\ UNCHANGED <<defaultCert, defaultKey, lastSet, disk, nextTmp, nHandles, te, stops,
                   removes, created, absRes, race>>

ServeStopped(h) == srv[h].interrupt /\ ServeReturns(h, "nil")
ServeFailed(h) == ServeReturns(h, "err")

\* ---------------------------------------------------------------- AbsURL
\* AbsURL without the check for a leading '/'.
AbsURLAlwaysSlash(t, path) ==
    IF Len(path) = 0 THEN t.URL ELSE t.URL \o <<"/">> \o path

AbsURL(t, path) ==
    IF Len(path) = 0 THEN t.URL
    ELSE IF path[1] = "/" THEN t.URL \o path
    ELSE t.URL \o <<"/">> \o path

AbsURLCall ==
    \E h \in Handles, path \in Paths :
        /\ te[h].status = "listening"
        /\ absRes' = [h |-> h, path |-> path, out |-> AbsURL(te[h], path)]
        /\ ret' = NoRet
        /\ UNCHANGED <<defaultCert, defaultKey, lastSet, disk, nextTmp, portOwner,
                       nHandles, te, srv, pc, stops, removes, created, race>>

\* ---------------------------------------------------------------- specifications
Contexts == {"stop", "serve"}
StopStep == \E h \in Handles : Stop(h, MaxStops)
CleanupLockStep == \E h \in Handles, ctx \in Contexts : CleanupLock(h, ctx)
CleanupCertStep == \E h \in Handles, ctx \in Contexts : CleanupCert(h, ctx, BOOLEAN)
CleanupKeyStep == \E h \in Handles, ctx \in Contexts : CleanupKey(h, ctx, BOOLEAN)
ServeStoppedStep == \E h \in Handles : ServeStopped(h)
ServeFailedStep == \E h \in Handles : ServeFailed(h)

\* Every operation, with every input.
Next ==
    \/ New
    \/ NewWith
    \/ NewTLS
    \/ SetDefaultTLSCert
    \/ StopStep
    \/ CleanupLockStep
    \/ CleanupCertStep
    \/ CleanupKeyStep
    \/ ServeStoppedStep
    \/ ServeFailedStep
    \/ AbsURLCall

Spec == Init /\ [][Next]_vars

\* Starting servers that bring no certificate of their own, with every failure
\* of the environment: what a start writes, binds and returns.
StartNewWith == NewWithIn(MaxHandles, DefaultConfigs, Envs)

NextStart ==
    \/ New
    \/ StartNewWith
    \/ NewTLS

SpecStart == Init /\ [][NextStart]_vars

\* One start, with every configuration, after any SetDefaultTLSCert calls: the
\* certificate and the key the start selects.
CertNewWith == NewWithIn(MaxDeep, Configs, Envs)
CertNewTLS == NewTLSIn(MaxDeep, Envs)

NextCert ==
    \/ CertNewWith
    \/ CertNewTLS
    \/ SetDefaultTLSCert

SpecCert == Init /\ [][NextCert]_vars

\* The life of one handle after another: start, Stop, the serve goroutine and
\* the cleanup of the files, in every interleaving and with every failure of
\* the environment. The contents of the files play no part, so the starts use
\* the default certificate.
LifeNew == NewIn(MaxDeep, Envs)
LifeNewWith == NewWithIn(MaxDeep, DefaultConfigs, Envs)
LifeNewTLS == NewTLSIn(MaxDeep, Envs)

NextLife ==
    \/ LifeNew
    \/ LifeNewWith
    \/ LifeNewTLS
    \/ StopStep
    \/ CleanupLockStep
    \/ CleanupCertStep
    \/ CleanupKeyStep
    \/ ServeStoppedStep
    \/ ServeFailedStep

SpecLife == Init /\ [][NextLife]_vars

\* Several servers and the ports they hold, each stopped at most once, in an
\* environment where only a taken port makes a start fail and the serve loop
\* ends only when told to.
PortsNew == NewIn(MaxHandles, EnvsOK)
PortsNewWith == NewWithIn(MaxHandles, DefaultConfigs, EnvsOK)
PortsCleanupCertStep == \E h \in Handles, ctx \in Contexts : CleanupCert(h, ctx, {TRUE})
PortsCleanupKeyStep == \E h \in Handles, ctx \in Contexts : CleanupKey(h, ctx, {TRUE})

PortsStopStep == \E h \in Handles : Stop(h, 1)

NextPorts ==
    \/ PortsNew
    \/ PortsNewWith
    \/ PortsStopStep
    \/ CleanupLockStep
    \/ PortsCleanupCertStep
    \/ PortsCleanupKeyStep
    \/ ServeStoppedStep

SpecPorts == Init /\ [][NextPorts]_vars

\* AbsURL on the handles that New and NewTLS return.
NextAbsURL ==
    \/ New
    \/ NewTLS
    \/ AbsURLCall

SpecAbsURL == Init /\ [][NextAbsURL]_vars

\* SetDefaultTLSCert in one goroutine and NewTLS in another, one access to
\* defaultCert and defaultKey at a time.
RaceNewTLSReadCert == RaceReadCert(MaxDeep)
RaceNewTLS == RaceStart(EnvsOK)

NextRace ==
    \/ RaceSetCall
    \/ RaceSetCertBegin
    \/ RaceSetCert
    \/ RaceSetKeyBegin
    \/ RaceSetKey
    \/ RaceNewTLSReadCert
    \/ RaceReadKey
    \/ RaceNewTLS

SpecRace == Init /\ [][NextRace]_vars

\* One TLS server (the mutex and the paths belong to one handle, and handles
\* share no field), with cleanupTLSFiles taken statement by statement in the
\* caller of Stop and in the serve goroutine, and removals that may fail. A context that can take a step takes it in the end: the Go
\* scheduler runs every runnable goroutine, os.Remove returns, and
\* sync.Mutex hands the mutex to a waiting goroutine once it is free.
MutexNewTLS == NewTLSIn(1, EnvsOK)
MutexCertTestStep == \E h \in Handles, ctx \in Contexts : CleanupCertTest(h, ctx)
MutexCertRemoveStep == \E h \in Handles, ctx \in Contexts : CleanupCertRemove(h, ctx, BOOLEAN)
MutexCertClearStep == \E h \in Handles, ctx \in Contexts : CleanupCertClear(h, ctx)
MutexKeyTestStep == \E h \in Handles, ctx \in Contexts : CleanupKeyTest(h, ctx)
MutexKeyRemoveStep == \E h \in Handles, ctx \in Contexts : CleanupKeyRemove(h, ctx, BOOLEAN)
MutexKeyClearStep == \E h \in Handles, ctx \in Contexts : CleanupKeyClear(h, ctx)
MutexUnlockStep == \E h \in Handles, ctx \in Contexts : CleanupUnlock(h, ctx)

NextMutex ==
    \/ MutexNewTLS
    \/ StopStep
    \/ CleanupLockStep
    \/ MutexCertTestStep
    \/ MutexCertRemoveStep
    \/ MutexCertClearStep
    \/ MutexKeyTestStep
    \/ MutexKeyRemoveStep
    \/ MutexKeyClearStep
    \/ MutexUnlockStep
    \/ ServeStoppedStep
    \/ ServeFailedStep

\* The steps of cleanupTLSFiles in context ctx once it holds the mutex.
CleanupLocked(h, ctx) ==
    \/ CleanupCertTest(h, ctx)
    \/ CleanupCertRemove(h, ctx, BOOLEAN)
    \/ CleanupCertClear(h, ctx)
    \/ CleanupKeyTest(h, ctx)
    \/ CleanupKeyRemove(h, ctx, BOOLEAN)
    \/ CleanupKeyClear(h, ctx)
    \/ CleanupUnlock(h, ctx)

MutexFairness ==
    \A h \in Handles, ctx \in Contexts :
        /\ WF_vars(CleanupLock(h, ctx))
        /\ WF_vars(CleanupLocked(h, ctx))

SpecMutex == Init /\ [][NextMutex]_vars /\ MutexFairness

\* ================================================================ the claims
TempErrors == {"TempFileError", "WriteFileError"}
BindErrors == {"AddrInUse", "ListenError"}
HoldsPort(h) == \E p \in Ports : portOwner[p] = h
Returned(h) == te[h].status = "listening"       \* h was handed to a caller
StopNotCalled(h) == stops[h] = 0 /\ pc[h].stop = "idle"
BothEmpty(h) == te[h].certFilePath = NoPath /\ te[h].keyFilePath = NoPath

\* ---------------------------------------------------------------- C1
\* C1: AbsURL(p) on a handle with base URL U is U when p is empty, U + p when
\* p begins with '/', and U + "/" + p for any other p; the call changes no
\* field of the handle, no file and no listener.
AbsURLContract ==
    [][absRes'.h # 0 =>
         LET U == te[absRes'.h].URL
             p == absRes'.path
             out == absRes'.out
         IN  /\ Len(p) = 0 => out = U
             /\ (Len(p) > 0 /\ Head(p) = "/") => out = U \o p
             /\ (Len(p) > 0 /\ Head(p) # "/") => out = U \o <<"/">> \o p
             /\ UNCHANGED <<te, disk, portOwner, srv, pc, defaultCert, defaultKey>>]_vars

\* AbsURL was called on a TLS handle with a two-character path that does not
\* begin with '/'.
AbsURLWitness ==
    /\ absRes.h # 0
    /\ te[absRes.h].tls
    /\ absRes.path = <<"a", "/">>
    /\ absRes.out = te[absRes.h].URL \o <<"/", "a", "/">>

\* ---------------------------------------------------------------- C2
\* The certificate and key a configuration asks for.
WantedCert(cfg) == IF len(cfg.TLSCert) > 0 THEN cfg.TLSCert ELSE defaultCert
WantedKey(cfg) == IF len(cfg.TLSKey) > 0 THEN cfg.TLSKey ELSE defaultKey
\* The start that has just returned wrote both of its temp files.
WroteBoth == ret.h # 0 /\ ret.bind # "none" /\ created[ret.h].key # NoPath

\* C2: NewWith with TLS = true writes cfg.TLSCert to the certificate file if
\* it is non-empty and the default certificate otherwise, and cfg.TLSKey to the
\* key file if it is non-empty and the default key otherwise.
NewWithWritesConfigured ==
    (ret.fn = "NewWith" /\ ret.cfg.TLS /\ WroteBoth) =>
        /\ disk[created[ret.h].cert] = WantedCert(ret.cfg).data
        /\ disk[created[ret.h].key] = WantedKey(ret.cfg).data

\* ---------------------------------------------------------------- C6
\* The start that has just returned was a TLS start that brought neither a
\* certificate nor a key, and it wrote both of its temp files.
DefaultStartWrote ==
    /\ WroteBoth
    /\ \/ ret.fn = "NewTLS"
       \/ ret.fn = "NewWith" /\ ret.cfg.TLS /\ len(ret.cfg.TLSCert) = 0
            /\ len(ret.cfg.TLSKey) = 0

\* C6 as claimed: a TLS start without a certificate of its own uses the
\* certificate and key of the latest SetDefaultTLSCert call, and the bundled
\* localhost ones whenever that call passed an empty or absent value.
DefaultCertRestoredOnEmpty ==
    DefaultStartWrote =>
        /\ disk[created[ret.h].cert] =
              (IF lastSet.called /\ len(lastSet.cert) > 0 THEN lastSet.cert
               ELSE localhostCert).data
        /\ disk[created[ret.h].key] =
              (IF lastSet.called /\ len(lastSet.key) > 0 THEN lastSet.key
               ELSE localhostKey).data

\* C6, amended: a TLS start without a certificate or key of its own uses the
\* certificate and key of the latest SetDefaultTLSCert call, and the bundled
\* localhost certificate (key) whenever that call passed nil for it; a
\* zero-length value that is not nil is kept and used as it is.
DefaultCertRestoredOnNil ==
    DefaultStartWrote =>
        /\ disk[created[ret.h].cert] =
              (IF lastSet.called /\ ~lastSet.cert.isNil THEN lastSet.cert
               ELSE localhostCert).data
        /\ disk[created[ret.h].key] =
              (IF lastSet.called /\ ~lastSet.key.isNil THEN lastSet.key
               ELSE localhostKey).data

\* NewTLS wrote the certificate of a SetDefaultTLSCert(testCert, nil) call and
\* the bundled key.
DefaultCertWitness ==
    /\ DefaultStartWrote
    /\ ret.fn = "NewTLS"
    /\ lastSet.called /\ lastSet.cert = testCert /\ lastSet.key.isNil
    /\ disk[created[ret.h].cert] = testCert.data
    /\ disk[created[ret.h].key] = localhostKey.data

\* ---------------------------------------------------------------- C7
\* C7: when the bind fails, NewWith returns the bind error with a nil handle,
\* New and NewTLS log the error and return a nil handle; no serve goroutine is
\* started and the handle never listens.
BindFailureReturnsNil ==
    (ret.h # 0 /\ ret.bind = "fail") =>
        /\ ret.cause \in BindErrors
        /\ ret.handle = 0
        /\ ret.fn = "NewWith" => (ret.err = ret.cause /\ ~ret.logged)
        /\ ret.fn \in {"New", "NewTLS"} => ret.logged
        /\ pc[ret.h].serve = "none"
        /\ ~Returned(ret.h)
        /\ ~HoldsPort(ret.h)

\* NewWith failed to bind a port that another handle holds.
BindFailureWitness ==
    /\ ret.fn = "NewWith" /\ ret.bind = "fail" /\ ret.err = "AddrInUse"
    /\ \E h \in Handles : h # ret.h /\ portOwner[PortOf(ret.cfg.Addr)] = h

\* ---------------------------------------------------------------- C9
\* C9: when creating or writing a temp file fails during a TLS start, the
\* start hands back that error and a nil handle, and binds nothing: a bind is
\* attempted only after both files were written.
WriteFailureAbortsStart ==
    /\ (ret.h # 0 /\ ret.cause \in TempErrors) =>
          /\ ret.handle = 0
          /\ ret.fn = "NewWith" => ret.err = ret.cause
          /\ ret.fn = "NewTLS" => ret.logged
          /\ ret.bind = "none"
          /\ ~HoldsPort(ret.h)
          /\ pc[ret.h].serve = "none"
          /\ ~Returned(ret.h)
    /\ (ret.h # 0 /\ te[ret.h].tls /\ ret.bind # "none") =>
          /\ ret.cause \notin TempErrors
          /\ created[ret.h].cert \in DOMAIN disk
          /\ created[ret.h].key \in DOMAIN disk

\* NewWith failed writing the key file, after the certificate file was written.
WriteFailureWitness ==
    /\ ret.fn = "NewWith" /\ ret.err = "WriteFileError"
    /\ created[ret.h].key # NoPath
    /\ \E p \in Ports : portOwner[p] = 0

\* ---------------------------------------------------------------- C3
\* C3 as claimed: after Stop has returned on a started TLS handle, neither of
\* its temp files exists and both paths are empty.
StopRemovesFiles ==
    \A h \in Handles :
        (Returned(h) /\ te[h].tls /\ stops[h] >= 1) =>
            /\ ~Exists(created[h].cert)
            /\ ~Exists(created[h].key)
            /\ BothEmpty(h)

\* C3, amended: after Stop has returned on a started TLS handle, both paths
\* are empty and os.Remove was called on each of its temp files; a file is
\* still on disk only if that os.Remove failed.
StopAttemptsRemoval ==
    \A h \in Handles :
        (Returned(h) /\ te[h].tls /\ stops[h] >= 1) =>
            /\ BothEmpty(h)
            /\ removes[h].cert >= 1 /\ removes[h].key >= 1
            /\ Exists(created[h].cert) => "cert" \in removes[h].failed
            /\ Exists(created[h].key) => "key" \in removes[h].failed

\* Stop has returned on a TLS handle whose serve goroutine is still serving,
\* and both files are gone.
StopRemovesWitness ==
    \E h \in Handles :
        /\ Returned(h) /\ te[h].tls /\ stops[h] = 1
        /\ pc[h].serve = "serving"
        /\ ~Exists(created[h].cert) /\ ~Exists(created[h].key)

LaterStopsRemoveNothing ==
    [][\A h \in Handles :
          stops[h] >= 1 =>
              /\ removes'[h] = removes[h]
              /\ BothEmpty(h)'
              /\ (stops'[h] # stops[h] \/ pc'[h] # pc[h]) => disk' = disk]_vars

\* A second Stop has returned on a TLS handle, with one os.Remove per file.
LaterStopsWitness ==
    \E h \in Handles :
        /\ te[h].tls /\ stops[h] = 2
        /\ removes[h].cert = 1 /\ removes[h].key = 1

\* ---------------------------------------------------------------- C8
\* A start at the port of handle h returns in this step.
StartsAtPortOf(h) ==
    /\ nHandles' = nHandles + 1
    /\ te[h].Port # 0
    /\ ret'.cfg.Addr = AtPort(te[h].Port)
    /\ portOwner[te[h].Port] \in {0, h}
StartSucceedsAtPortOf(h) ==
    /\ ret'.handle # 0 /\ ret'.err = "nil"
    /\ te'[ret'.h].Port = te[h].Port
    /\ portOwner'[te[h].Port] = ret'.h

PathsBothOrNeither ==
    \A h \in Handles :
        te[h].mutex = "free" =>
            (te[h].certFilePath = NoPath <=> te[h].keyFilePath = NoPath)

\* A start failed creating the key file after its certificate file was written:
\* the certificate file is on disk and the discarded handle has neither path.
PathsWitness ==
    \E h \in Handles :
        /\ te[h].status = "failed" /\ te[h].mutex = "free"
        /\ created[h].cert # NoPath /\ Exists(created[h].cert)
        /\ created[h].key = NoPath
        /\ BothEmpty(h)

\* ---------------------------------------------------------------- C12
\* C12: when a TLS start fails, after its first temp file was created or after
\* both were written, none of the temp files it created is on disk when it
\* returns.
FailedStartLeavesNoFile ==
    (ret.h # 0 /\ te[ret.h].tls /\ ret.cause # "nil") =>
        /\ ~Exists(created[ret.h].cert)
        /\ ~Exists(created[ret.h].key)

\* ---------------------------------------------------------------- C13
\* C13: with cleanupTLSFiles running in the caller of Stop (any number of
\* times) and in the serve goroutine, in every interleaving os.Remove is
\* attempted at most once on each temp file of a handle, and every
\* cleanupTLSFiles that waits for the mutex gets it and returns.
CleanupOnceAndReturns ==
    /\ [](\A h \in Handles : removes[h].cert <= 1 /\ removes[h].key <= 1)
    /\ \A h \in Handles, ctx \in Contexts :
           (pc[h][ctx] = "lock") ~> (pc[h][ctx] \in {"idle", "done"})

\* The caller of Stop waits for the mutex of a TLS handle while the serve
\* goroutine holds it and has made its attempt to remove the certificate file.
CleanupContendedWitness ==
    \E h \in Handles :
        /\ te[h].tls
        /\ pc[h].stop = "lock"
        /\ te[h].mutex = "serve" /\ pc[h].serve = "clrCert"
        /\ removes[h].cert = 1

\* ---------------------------------------------------------------- C11
\* C11: SetDefaultTLSCert and a TLS start that reads the defaults do not
\* exclude each other: while a SetDefaultTLSCert call stands before or between
\* its two writes the start can make each of its reads, and between the two
\* reads of the start SetDefaultTLSCert can be called and make each of its
\* writes. (That the start then uses the certificate of one pair with the key
\* of another is TornPairWitness.)
DefaultsNotExcluded ==
    /\ (race.set # "idle" /\ race.start = "idle" /\ nHandles < MaxDeep) =>
           ENABLED RaceNewTLSReadCert
    /\ (race.set # "idle" /\ race.start = "key") => ENABLED RaceReadKey
    /\ (race.start = "key" /\ race.set = "idle") => ENABLED RaceSetCall
    /\ (race.start = "key" /\ race.set = "cert") => ENABLED RaceSetCertBegin
    /\ (race.start = "key" /\ race.set = "certEnd") => ENABLED RaceSetCert
    /\ (race.start = "key" /\ race.set = "key") => ENABLED RaceSetKeyBegin
    /\ (race.start = "key" /\ race.set = "keyEnd") => ENABLED RaceSetKey

\* NewTLS has returned a server whose certificate file holds the certificate
\* handed to SetDefaultTLSCert and whose key file holds the built-in key.
TornPairWitness ==
    /\ ret.fn = "NewTLS" /\ ret.handle # 0 /\ WroteBoth
    /\ disk[created[ret.h].cert] = testCert.data
    /\ disk[created[ret.h].key] = localhostKey.data

====
